---- MODULE Spec2Model ----
(***************************************************************************)
(* Request handlers of the Flask blog (flaskblog/routes.py) and the form   *)
(* validators they run (flaskblog/forms.py), as a state machine.  A        *)
(* request is one atomic step: the handler runs to completion, including   *)
(* its commit or the rollback that follows an uncaught exception.  The     *)
(* section on interleaved requests splits signup and account in two steps, *)
(* the uniqueness lookup and the commit.                                   *)
(*                                                                         *)
(* Text is a sequence of one-character strings, so that the substring      *)
(* replacement of new_post/update_post and the length and blank checks of  *)
(* the validators are computed as the code computes them.                  *)
(***************************************************************************)
EXTENDS Integers, Sequences, FiniteSets, TLC

(* ------------------------------ bounds --------------------------------- *)

\* Users the Credential Store may hold.
MaxUsers == 2
\* Posts the Content Store may hold at one time.
MaxPosts == 2
\* Distinct random stems secrets.token_hex can return.
MaxPics == 1
\* Last tick of the clock; the clock ticks once per expiry window of a token.
MaxTime == 1
\* Reset mails that may have been sent.
MaxMails == 1

(* ------------------------------- text ---------------------------------- *)

NL == "\n"
BR == <<"<", "b", "r", ">">>
None == "None"

Whitespace == {" ", NL}

\* Python truthiness of a string followed by str.strip(): DataRequired's test.
IsBlank(s) == \A i \in 1..Len(s) : s[i] \in Whitespace

RECURSIVE Replace(_, _, _)
\* str.replace(old, new): leftmost, non-overlapping occurrences.
Replace(s, old, new) ==
    IF Len(s) < Len(old) THEN s
    ELSE IF SubSeq(s, 1, Len(old)) = old
         THEN new \o Replace(SubSeq(s, Len(old) + 1, Len(s)), old, new)
         ELSE <<Head(s)>> \o Replace(Tail(s), old, new)

LowerLetters == <<"a", "b", "d", "e", "h", "i", "l", "o", "r", "w", "x">>
UpperLetters == <<"A", "B", "D", "E", "H", "I", "L", "O", "R", "W", "X">>

IsLower(ch) == \E i \in 1..Len(LowerLetters) : LowerLetters[i] = ch
IsUpper(ch) == \E i \in 1..Len(UpperLetters) : UpperLetters[i] = ch
IsCased(ch) == IsLower(ch) \/ IsUpper(ch)
ToUpper(ch) ==
    IF IsLower(ch)
    THEN UpperLetters[CHOOSE i \in 1..Len(LowerLetters) : LowerLetters[i] = ch]
    ELSE ch
ToLower(ch) ==
    IF IsUpper(ch)
    THEN LowerLetters[CHOOSE i \in 1..Len(UpperLetters) : UpperLetters[i] = ch]
    ELSE ch

RECURSIVE TitleFrom(_, _)
\* str.title(): a cased character is upper-cased after an uncased one (or at
\* the start) and lower-cased after a cased one.
TitleFrom(s, prevCased) ==
    IF s = <<>> THEN <<>>
    ELSE <<IF prevCased THEN ToLower(Head(s)) ELSE ToUpper(Head(s))>>
         \o TitleFrom(Tail(s), IsCased(Head(s)))

\* Faulty variant of the title-casing: str.capitalize(), the first character
\* upper-cased and the rest lower-cased.
Title_Capitalize(s) ==
    IF s = <<>> THEN <<>>
    ELSE <<ToUpper(Head(s))>> \o [i \in 1..(Len(s) - 1) |-> ToLower(s[i + 1])]

Title(s) == TitleFrom(s, FALSE)

\* new_post / update_post: content.replace('\n', '<br>')
Normalize(content) == Replace(content, <<NL>>, BR)
\* update_post on GET: post.content.replace('<br>', '\n')
Denormalize(content) == Replace(content, BR, <<NL>>)

(* --------------------------- input domains ----------------------------- *)

Clients == {"c1"}
\* A second browser, for the requests somebody makes while the first one's
\* session is open.
Visitors == {"c2"}
Browsers == Clients \cup Visitors
Methods == {"GET", "POST"}

Al == <<"a", "l">>
Bo == <<"b", "o">>
ShortName == <<"x">>
UsernameInputs == {Al, Bo}
BadUsernameInputs == {ShortName, <<>>}

MailA == <<"a", "@", "x">>
MailB == <<"b", "@", "x">>
BadMail == <<"a", "x">>
EmailInputs == {MailA, MailB}
BadEmailInputs == {BadMail, <<>>}

PasswordInputs == {"p1", "p2"}

DefaultImg == [stem |-> "default", ext |-> ".jpg"]
Uploads == {[stem |-> "default", ext |-> ".jpg"],
            [stem |-> "me", ext |-> ".png"],
            [stem |-> "notes", ext |-> ".txt"]}
\* form.picture.data when no file was uploaded.
NoPicture == [stem |-> "", ext |-> ""]
PictureInputs == {NoPicture} \cup Uploads
HexStems == {"hex" \o ToString(n) : n \in 1..MaxPics}

TitleInputs == {<<"h", "i", " ", "b", "o">>, <<>>}
ContentInputs == {<<"a", NL, "b">>, <<"a">> \o BR \o <<"b">>, <<NL>>}

(* ------------------------------- state --------------------------------- *)

VARIABLES
    users,      \* Credential Store: user id (1..Len) -> User row
    posts,      \* Content Store: set of Post rows
    session,    \* browser -> id of the logged-in user, 0 when anonymous
    nextArg,    \* browser -> the ?next= argument of the signin URL it is at
    files,      \* file names present in static/img/profile_pics
    outbox,     \* reset tokens that were mailed
    now,        \* clock
    resp,       \* the response to the last request
    typed,      \* history: post id -> the form its author last submitted
    pending     \* browser -> its request that has validated, not yet committed

vars ==
    <<users, posts, session, nextArg, files, outbox, now, resp, typed, pending>>

UserIds == 1..Len(users)

\* bcrypt.generate_password_hash / check_password_hash
Hash(pw) == <<"bcrypt", pw>>
CheckHash(h, pw) == h[1] = "bcrypt" /\ h[2] = pw

\* User.query.filter_by(username=...).first()
ByUsername(name) ==
    IF \E i \in UserIds : users[i].username = name
    THEN CHOOSE i \in UserIds :
            /\ users[i].username = name
            /\ \A j \in UserIds : users[j].username = name => i <= j
    ELSE 0

\* User.query.filter_by(email=...).first()
ByEmail(email) ==
    IF \E i \in UserIds : users[i].email = email
    THEN CHOOSE i \in UserIds :
            /\ users[i].email = email
            /\ \A j \in UserIds : users[j].email = email => i <= j
    ELSE 0

\* A request between its validation and its commit: the handler it is in and
\* the form data it goes on with.
Pending(op, username, email, password, picture) ==
    [op |-> op, username |-> username, email |-> email,
     password |-> password, picture |-> picture]
\* No request of the browser is under way.
Idle == Pending("none", <<>>, <<>>, "", NoPicture)

(* ------------------------------ responses ------------------------------ *)

\* url_for(endpoint, post_id=id); id is 0 for the endpoints that take none.
Path(page, id) == [page |-> page, id |-> id]
Page(page) == Path(page, 0)
NoPath == Page("none")
Home == Page("index")

NoPrefill == [title |-> <<>>, content |-> <<>>]

\* render_template: a 200 with the page, the flashed notice, the form's field
\* errors and the data the form is filled with.  writes, imgCalls and deletes
\* count the request's commits, save_picture calls and os.remove calls.
RenderAt(op, path, flash, errors, form) ==
    [op |-> op, status |-> 200, to |-> path, flash |-> flash,
     errors |-> errors, form |-> form,
     writes |-> 0, imgCalls |-> 0, deletes |-> 0]

Render(op, page, flash, errors, form) ==
    RenderAt(op, Page(page), flash, errors, form)

\* redirect(url_for(...))
Redirect(op, target, flash, writes, imgCalls, deletes) ==
    [op |-> op, status |-> 302, to |-> target, flash |-> flash,
     errors |-> {}, form |-> NoPrefill,
     writes |-> writes, imgCalls |-> imgCalls, deletes |-> deletes]

\* abort(code), a routing error, or an uncaught exception (500): the session
\* is rolled back, nothing was committed.
Abort(op, code) ==
    [op |-> op, status |-> code, to |-> NoPath, flash |-> None,
     errors |-> {}, form |-> NoPrefill,
     writes |-> 0, imgCalls |-> 0, deletes |-> 0]

\* The client leaves the signin URL it was at, and with it the ?next= argument.
Leave(c) == nextArg' = [nextArg EXCEPT ![c] = NoPath]

\* login_required on an anonymous request: the login manager flashes its
\* notice and redirects to the signin view with ?next=<the requested path>.
Unauthorized(op, c, path) ==
    /\ resp' = Redirect(op, Page("signin"), "login_required", 0, 0, 0)
    /\ nextArg' = [nextArg EXCEPT ![c] = path]

(* ------------------------------ validators ----------------------------- *)

\* DataRequired: stops the field's chain.
Required(field, data) ==
    IF IsBlank(data) THEN {<<field, "required">>} ELSE {}

\* Length(min=2, max=20)
LengthError(field, data) ==
    IF Len(data) < 2 \/ Len(data) > 20 THEN {<<field, "length">>} ELSE {}

\* Email(): one "@" with text on both sides.
IsEmail(data) ==
    \E i \in 2..(Len(data) - 1) :
        /\ data[i] = "@"
        /\ \A j \in 1..Len(data) : data[j] = "@" => j = i

EmailError(field, data) ==
    IF IsEmail(data) THEN {} ELSE {<<field, "invalid">>}

\* PasswordField with DataRequired.
PasswordRequired(field, data) ==
    IF data = "" THEN {<<field, "required">>} ELSE {}

\* EqualTo('password')
EqualToError(field, data, other) ==
    IF data # other THEN {<<field, "mismatch">>} ELSE {}

\* SignupForm.validate_username
SignupUsernameTaken(name) ==
    IF ByUsername(name) # 0 THEN {<<"username", "taken">>} ELSE {}

\* Faulty variant of SignupForm.validate_email: the lookup is left out.
SignupEmailTaken_NoLookup(email) == {}

\* SignupForm.validate_email
SignupEmailTaken(email) ==
    IF ByEmail(email) # 0 THEN {<<"email", "taken">>} ELSE {}

\* SignupForm.validate(): every field's chain; a ValidationError does not
\* stop a chain, DataRequired's StopValidation does.
SignupErrors(f) ==
    (IF IsBlank(f.username) THEN Required("username", f.username)
     ELSE LengthError("username", f.username)
          \cup SignupUsernameTaken(f.username))
    \cup
    (IF IsBlank(f.email) THEN Required("email", f.email)
     ELSE EmailError("email", f.email) \cup SignupEmailTaken(f.email))
    \cup PasswordRequired("password", f.password)
    \cup
    (IF f.confirm_password = ""
     THEN PasswordRequired("confirm_password", f.confirm_password)
     ELSE EqualToError("confirm_password", f.confirm_password, f.password))

\* SigninForm.validate()
SigninErrors(f) ==
    (IF IsBlank(f.email) THEN Required("email", f.email)
     ELSE EmailError("email", f.email))
    \cup PasswordRequired("password", f.password)

\* Faulty variant of UpdateAccountForm.validate_username: the lookup is
\* left out.
UpdateUsernameTaken_NoLookup(name, cu) == {}

\* UpdateAccountForm.validate_username
UpdateUsernameTaken(name, cu) ==
    IF name # users[cu].username /\ ByUsername(name) # 0
    THEN {<<"username", "taken">>} ELSE {}

\* UpdateAccountForm.validate_email
UpdateEmailTaken(email, cu) ==
    IF email # users[cu].email /\ ByEmail(email) # 0
    THEN {<<"email", "taken">>} ELSE {}

\* FileAllowed(['jpg', 'png', 'jpeg']): passes when no file was uploaded.
FileAllowedError(field, picture) ==
    IF picture # NoPicture /\ picture.ext \notin {".jpg", ".png", ".jpeg"}
    THEN {<<field, "not_image">>} ELSE {}

\* UpdateAccountForm.validate(), cu the current user.
AccountErrors(f, cu) ==
    (IF IsBlank(f.username) THEN Required("username", f.username)
     ELSE LengthError("username", f.username)
          \cup UpdateUsernameTaken(f.username, cu))
    \cup
    (IF IsBlank(f.email) THEN Required("email", f.email)
     ELSE EmailError("email", f.email) \cup UpdateEmailTaken(f.email, cu))
    \cup FileAllowedError("picture", f.picture)

\* PostForm.validate()
PostErrors(f) ==
    Required("title", f.title) \cup Required("content", f.content)

\* RequestResetForm.validate_email
ResetEmailUnknown(email) ==
    IF ByEmail(email) = 0 THEN {<<"email", "no_account">>} ELSE {}

\* RequestResetForm.validate()
RequestResetErrors(f) ==
    IF IsBlank(f.email) THEN Required("email", f.email)
    ELSE EmailError("email", f.email) \cup ResetEmailUnknown(f.email)

\* ResetPasswordForm.validate()
ResetPasswordErrors(f) ==
    PasswordRequired("password", f.password)
    \cup
    (IF f.confirm_password = ""
     THEN PasswordRequired("confirm_password", f.confirm_password)
     ELSE EqualToError("confirm_password", f.confirm_password, f.password))

(* -------------------------------- forms -------------------------------- *)

NoForm == None

\* The forms a client submits: every combination of the well-formed inputs,
\* and one well-formed form with each of its fields spoilt in turn.
SignupForms ==
    {f \in [username : UsernameInputs, email : EmailInputs,
            password : PasswordInputs, confirm_password : PasswordInputs] :
        f.confirm_password = f.password}
    \cup [username : BadUsernameInputs, email : {MailA},
          password : {"p1"}, confirm_password : {"p1"}]
    \cup [username : {Al}, email : BadEmailInputs,
          password : {"p1"}, confirm_password : {"p1"}]
    \cup [username : {Al}, email : {MailA},
          password : {"", "p2"}, confirm_password : {"", "p2"}]

SigninForms ==
    [email : EmailInputs, password : PasswordInputs]
    \cup [email : BadEmailInputs, password : {"p1"}]
    \cup [email : {MailA}, password : {""}]

AccountForms ==
    [username : UsernameInputs, email : EmailInputs, picture : PictureInputs]
    \cup [username : BadUsernameInputs, email : {MailA}, picture : {NoPicture}]
    \cup [username : {Al}, email : BadEmailInputs, picture : {NoPicture}]

\* Two people who sign up and sign in without a slip.
PlainSignupForms ==
    {[username |-> Al, email |-> MailA,
      password |-> "p1", confirm_password |-> "p1"],
     [username |-> Bo, email |-> MailB,
      password |-> "p1", confirm_password |-> "p1"]}

PlainSigninForms ==
    {[email |-> MailA, password |-> "p1"], [email |-> MailB, password |-> "p1"]}

PostForms == [title : TitleInputs, content : ContentInputs]

RequestResetForms == [email : EmailInputs \cup BadEmailInputs]

ResetPasswordForms ==
    [password : PasswordInputs, confirm_password : PasswordInputs]
    \cup [password : {"", "p2"}, confirm_password : {"", "p2"}]

FormsOf(m, forms) == IF m = "POST" THEN forms ELSE {NoForm}

(* ------------------------------- handlers ------------------------------ *)

TypeOK ==
    /\ session \in [Browsers -> 0..Len(users)]
    /\ Len(users) <= MaxUsers

Init ==
    /\ users = <<>>
    /\ posts = {}
    /\ session = [c \in Browsers |-> 0]
    /\ nextArg = [c \in Browsers |-> NoPath]
    /\ files = {DefaultImg}
    /\ outbox = {}
    /\ now = 0
    /\ resp = Render("start", "none", None, {}, NoPrefill)
    /\ typed = {}
    /\ pending = [c \in Browsers |-> Idle]

\* @app.route('/signup', methods=['GET', 'POST'])
Signup(c, m, f) ==
    /\ Leave(c)
    /\ IF session[c] # 0
       THEN /\ resp' = Redirect("signup", Home, None, 0, 0, 0)
            /\ UNCHANGED users
       ELSE IF m = "POST" /\ SignupErrors(f) = {}
       THEN /\ Len(users) < MaxUsers
            /\ users' = Append(users, [username |-> f.username,
                                       email |-> f.email,
                                       password |-> Hash(f.password),
                                       img_file |-> DefaultImg])
            /\ resp' = Redirect("signup", Page("signin"), "account_created",
                                1, 0, 0)
       ELSE /\ resp' = Render("signup", "signup", None,
                              IF m = "POST" THEN SignupErrors(f) ELSE {},
                              NoPrefill)
            /\ UNCHANGED users
    /\ UNCHANGED <<posts, typed, session, files, outbox, now, pending>>

\* Faulty variant of request.args.get('next'): the argument is not read.
NextPage_Ignored(c, fresh) == NoPath

\* request.args.get('next'): the request is made at the URL the client is at
\* (fresh = FALSE) or at a bare /signin (fresh = TRUE).
NextPage(c, fresh) == IF fresh THEN NoPath ELSE nextArg[c]

\* Faulty variant of signin: the password is checked on the row without
\* testing that there is one, and the AttributeError for an unknown email
\* ends the request.
Signin_NoUserTest(c, m, f, fresh) ==
    LET next_page == NextPage(c, fresh)
        user == ByEmail(f.email)
    IN  IF session[c] # 0
        THEN /\ resp' = Redirect("signin", Home, None, 0, 0, 0)
             /\ Leave(c)
             /\ UNCHANGED session
        ELSE IF m = "POST" /\ SigninErrors(f) = {}
        THEN IF user = 0
             THEN /\ resp' = Abort("signin", 500)
                  /\ nextArg' = [nextArg EXCEPT ![c] = next_page]
                  /\ UNCHANGED session
             ELSE IF CheckHash(users[user].password, f.password)
             THEN /\ session' = [session EXCEPT ![c] = user]
                  /\ resp' = Redirect("signin",
                                      IF next_page # NoPath THEN next_page
                                      ELSE Home, None, 0, 0, 0)
                  /\ Leave(c)
             ELSE /\ resp' = Render("signin", "signin", "login_failed", {},
                                    NoPrefill)
                  /\ nextArg' = [nextArg EXCEPT ![c] = next_page]
                  /\ UNCHANGED session
        ELSE /\ resp' = Render("signin", "signin", None,
                               IF m = "POST" THEN SigninErrors(f) ELSE {},
                               NoPrefill)
             /\ nextArg' = [nextArg EXCEPT ![c] = next_page]
             /\ UNCHANGED session

\* @app.route('/signin', methods=['GET', 'POST'])
Signin(c, m, f, fresh) ==
    LET next_page == NextPage(c, fresh)
        user == ByEmail(f.email)
    IN  IF session[c] # 0
        THEN /\ resp' = Redirect("signin", Home, None, 0, 0, 0)
             /\ Leave(c)
             /\ UNCHANGED session
        ELSE IF m = "POST" /\ SigninErrors(f) = {}
        THEN IF user # 0 /\ CheckHash(users[user].password, f.password)
             THEN /\ session' = [session EXCEPT ![c] = user]
                  /\ resp' = Redirect("signin",
                                      IF next_page # NoPath THEN next_page
                                      ELSE Home, None, 0, 0, 0)
                  /\ Leave(c)
             ELSE /\ resp' = Render("signin", "signin", "login_failed", {},
                                    NoPrefill)
                  /\ nextArg' = [nextArg EXCEPT ![c] = next_page]
                  /\ UNCHANGED session
        ELSE /\ resp' = Render("signin", "signin", None,
                               IF m = "POST" THEN SigninErrors(f) ELSE {},
                               NoPrefill)
             /\ nextArg' = [nextArg EXCEPT ![c] = next_page]
             /\ UNCHANGED session

SigninReq(c, m, f, fresh) ==
    /\ Signin(c, m, f, fresh)
    /\ UNCHANGED <<users, posts, typed, files, outbox, now, pending>>

\* Faulty variant of logout: logout_user() is left out.
Logout_NoLogoutUser(c) ==
    /\ resp' = Redirect("logout", Home, None, 0, 0, 0)
    /\ Leave(c)
    /\ UNCHANGED <<users, posts, typed, session, files, outbox, now, pending>>

\* @app.route('/logout')
Logout(c) ==
    /\ session' = [session EXCEPT ![c] = 0]
    /\ resp' = Redirect("logout", Home, None, 0, 0, 0)
    /\ Leave(c)
    /\ UNCHANGED <<users, posts, typed, files, outbox, now, pending>>

\* save_picture(form_picture): the name the thumbnail is written under,
\* random_hex + the upload's extension.
SavePicture(random_hex, form_picture) ==
    [stem |-> random_hex, ext |-> form_picture.ext]

\* Faulty variant of the change detection: any uploaded picture counts as a
\* change.
AccountChanged_AnyPicture(cu, f) ==
    \/ users[cu].username # f.username
    \/ users[cu].email # f.email
    \/ f.picture # NoPicture

\* account's change detection, cu the current user.
AccountChanged(cu, f) ==
    \/ users[cu].username # f.username
    \/ users[cu].email # f.email
    \/ (f.picture # NoPicture /\ users[cu].img_file # f.picture)

\* Faulty variant of account: the old image is removed without the test for
\* 'default.jpg'.
Account_RemovesDefault(c, m, f) ==
    LET cu == session[c]
        changed == AccountChanged(cu, f)
    IN
    /\ IF cu = 0
       THEN /\ Unauthorized("account", c, Page("account"))
            /\ UNCHANGED <<users, files>>
       ELSE
       /\ Leave(c)
       /\ IF m = "POST" /\ AccountErrors(f, cu) = {}
          THEN IF changed
               THEN IF f.picture = NoPicture
                    THEN /\ resp' = Abort("account", 500)
                         /\ UNCHANGED <<users, files>>
                    ELSE \E random_hex \in HexStems :
                         LET old_image == users[cu].img_file
                             picture_fn == SavePicture(random_hex, f.picture)
                         IN  /\ picture_fn \notin files
                             /\ \A u \in UserIds : users[u].img_file # picture_fn
                             /\ files' = (files \cup {picture_fn}) \ {old_image}
                             /\ users' = [users EXCEPT ![cu] =
                                   [username |-> f.username,
                                    email |-> f.email,
                                    password |-> users[cu].password,
                                    img_file |-> picture_fn]]
                             /\ resp' = Redirect("account", Page("account"),
                                                 "account_updated", 1, 1, 1)
               ELSE /\ resp' = Redirect("account", Page("account"), None,
                                        0, 0, 0)
                    /\ UNCHANGED <<users, files>>
          ELSE /\ resp' = Render("account", "account", None,
                                 IF m = "POST" THEN AccountErrors(f, cu) ELSE {},
                                 NoPrefill)
               /\ UNCHANGED <<users, files>>
    /\ UNCHANGED <<posts, typed, session, outbox, now, pending>>

\* @app.route('/account', methods=['GET', 'POST']), @login_required
Account(c, m, f) ==
    LET cu == session[c]
        changed == AccountChanged(cu, f)
    IN
    /\ IF cu = 0
       THEN /\ Unauthorized("account", c, Page("account"))
            /\ UNCHANGED <<users, files>>
       ELSE
       /\ Leave(c)
       /\ IF m = "POST" /\ AccountErrors(f, cu) = {}
          THEN IF changed
               THEN IF f.picture = NoPicture
                    THEN \* save_picture(None): None has no filename; the
                         \* AttributeError ends the request before the commit
                         /\ resp' = Abort("account", 500)
                         /\ UNCHANGED <<users, files>>
                    ELSE \E random_hex \in HexStems :
                         LET old_image == users[cu].img_file
                             picture_fn == SavePicture(random_hex, f.picture)
                             removes == old_image # DefaultImg
                         IN  \* token_hex(8) is taken to return an unused name
                             /\ picture_fn \notin files
                             /\ \A u \in UserIds : users[u].img_file # picture_fn
                             /\ files' = (files \cup {picture_fn})
                                         \ (IF removes THEN {old_image} ELSE {})
                             /\ users' = [users EXCEPT ![cu] =
                                   [username |-> f.username,
                                    email |-> f.email,
                                    password |-> users[cu].password,
                                    img_file |-> picture_fn]]
                             /\ resp' = Redirect("account", Page("account"),
                                                 "account_updated", 1, 1,
                                                 IF removes THEN 1 ELSE 0)
               ELSE /\ resp' = Redirect("account", Page("account"), None,
                                        0, 0, 0)
                    /\ UNCHANGED <<users, files>>
          ELSE /\ resp' = Render("account", "account", None,
                                 IF m = "POST" THEN AccountErrors(f, cu) ELSE {},
                                 NoPrefill)
               /\ UNCHANGED <<users, files>>
    /\ UNCHANGED <<posts, typed, session, outbox, now, pending>>

PostIds == {p.id : p \in posts}
HasPost(id) == id \in PostIds
\* Post.query.get(post_id)
PostById(id) == CHOOSE p \in posts : p.id = id

\* The primary key the store gives a new row: one past the largest in use.
NewPostId ==
    IF posts = {} THEN 1
    ELSE 1 + CHOOSE n \in PostIds : \A k \in PostIds : k <= n

PostIdInputs == 1..(MaxPosts + 1)

\* History: what the author submitted for the post.
Typed(id, f) == [id |-> id, title |-> f.title, content |-> f.content]

\* Faulty variant of the ownership test: it never objects.
NotAuthor_Never(post, cu) == FALSE

\* Faulty variant of the ownership test: the post's id is compared with the
\* user, not its author.
NotAuthor_PostId(post, cu) == post.id # cu

\* post.author != current_user
NotAuthor(post, cu) == post.author # cu

\* Faulty variant of the prefill: the stored content is shown as it is.
EditPrefill_Stored(post) == [title |-> post.title, content |-> post.content]

\* update_post on GET: the form is filled with the stored title and the
\* stored content with its line breaks turned back into newlines.
EditPrefill(post) ==
    [title |-> post.title, content |-> Denormalize(post.content)]

\* Faulty variant of new_post: the row's author is set from the new post's id,
\* not from current_user.
NewPost_AuthorPostId(c, m, f) ==
    LET cu == session[c]
    IN
    /\ IF cu = 0
       THEN /\ Unauthorized("new_post", c, Page("new_post"))
            /\ UNCHANGED <<posts, typed>>
       ELSE
       /\ Leave(c)
       /\ IF m = "POST" /\ PostErrors(f) = {}
          THEN /\ NewPostId <= MaxPosts
               /\ posts' = posts \cup {[id |-> NewPostId,
                                        title |-> Title(f.title),
                                        content |-> Normalize(f.content),
                                        author |-> NewPostId]}
               /\ typed' = typed \cup {Typed(NewPostId, f)}
               /\ resp' = Redirect("new_post", Home, "post_created", 1, 0, 0)
          ELSE /\ resp' = Render("new_post", "manage_post", None,
                                 IF m = "POST" THEN PostErrors(f) ELSE {},
                                 IF m = "POST" THEN f ELSE NoPrefill)
               /\ UNCHANGED <<posts, typed>>
    /\ UNCHANGED <<users, session, files, outbox, now, pending>>

\* @app.route('/post/new', methods=['GET', 'POST']), @login_required
NewPost(c, m, f) ==
    LET cu == session[c]
    IN
    /\ IF cu = 0
       THEN /\ Unauthorized("new_post", c, Page("new_post"))
            /\ UNCHANGED <<posts, typed>>
       ELSE
       /\ Leave(c)
       /\ IF m = "POST" /\ PostErrors(f) = {}
          THEN /\ NewPostId <= MaxPosts
               /\ posts' = posts \cup {[id |-> NewPostId,
                                        title |-> Title(f.title),
                                        content |-> Normalize(f.content),
                                        author |-> cu]}
               /\ typed' = typed \cup {Typed(NewPostId, f)}
               /\ resp' = Redirect("new_post", Home, "post_created", 1, 0, 0)
          ELSE /\ resp' = Render("new_post", "manage_post", None,
                                 IF m = "POST" THEN PostErrors(f) ELSE {},
                                 IF m = "POST" THEN f ELSE NoPrefill)
               /\ UNCHANGED <<posts, typed>>
    /\ UNCHANGED <<users, session, files, outbox, now, pending>>

\* @app.route('/post/<int:post_id>')
ViewPost(c, post_id) ==
    /\ Leave(c)
    /\ IF ~HasPost(post_id)
       THEN resp' = Abort("post", 404)
       ELSE resp' = RenderAt("post", Path("post", post_id), None, {},
                             [title |-> PostById(post_id).title,
                              content |-> PostById(post_id).content])
    /\ UNCHANGED <<users, posts, typed, session, files, outbox, now, pending>>

\* @app.route('/post/<int:post_id>/update', methods=['GET', 'POST']),
\* @login_required
UpdatePost(c, m, post_id, f) ==
    LET cu == session[c]
        post == PostById(post_id)
    IN
    /\ IF cu = 0
       THEN /\ Unauthorized("update_post", c, Path("update_post", post_id))
            /\ UNCHANGED <<posts, typed>>
       ELSE
       /\ Leave(c)
       /\ IF ~HasPost(post_id)
          THEN /\ resp' = Abort("update_post", 404)
               /\ UNCHANGED <<posts, typed>>
          ELSE IF NotAuthor(post, cu)
          THEN /\ resp' = Abort("update_post", 403)
               /\ UNCHANGED <<posts, typed>>
          ELSE IF m = "POST" /\ PostErrors(f) = {}
          THEN /\ posts' = (posts \ {post}) \cup
                              {[id |-> post.id,
                                title |-> f.title,
                                content |-> Normalize(f.content),
                                author |-> post.author]}
               /\ typed' = {t \in typed : t.id # post.id}
                              \cup {Typed(post.id, f)}
               /\ resp' = Redirect("update_post", Path("post", post.id),
                                   "post_updated", 1, 0, 0)
          ELSE /\ resp' = RenderAt("update_post",
                                   Path("manage_post", post.id), None,
                                   IF m = "POST" THEN PostErrors(f) ELSE {},
                                   IF m = "GET" THEN EditPrefill(post) ELSE f)
               /\ UNCHANGED <<posts, typed>>
    /\ UNCHANGED <<users, session, files, outbox, now, pending>>

\* @app.route('/post/<int:post_id>/delete', methods=['POST']), @login_required
DeletePost(c, m, post_id) ==
    LET cu == session[c]
        post == PostById(post_id)
    IN
    /\ IF m # "POST"
       THEN \* the route takes POST alone: the router answers 405
            /\ resp' = Abort("delete_post", 405)
            /\ Leave(c)
            /\ UNCHANGED <<posts, typed>>
       ELSE IF cu = 0
       THEN /\ Unauthorized("delete_post", c, Path("delete_post", post_id))
            /\ UNCHANGED <<posts, typed>>
       ELSE
       /\ Leave(c)
       /\ IF ~HasPost(post_id)
          THEN /\ resp' = Abort("delete_post", 404)
               /\ UNCHANGED <<posts, typed>>
          ELSE IF NotAuthor(post, cu)
          THEN /\ resp' = Abort("delete_post", 403)
               /\ UNCHANGED <<posts, typed>>
          ELSE /\ posts' = posts \ {post}
               /\ typed' = {t \in typed : t.id # post.id}
               /\ resp' = Redirect("delete_post", Home, "post_deleted", 1, 0, 0)
    /\ UNCHANGED <<users, session, files, outbox, now, pending>>

\* Ticks a reset token stays valid for: the tick it was issued in.
ExpiryTicks == 1

\* User.get_reset_token(): a signed token of the user id and the issue time.
GetResetToken(user) == [uid |-> user, iat |-> now, signed |-> TRUE]

\* User.verify_reset_token(token): the user the token is bound to, 0 (None)
\* when the signature is bad, the token malformed or older than the window.
VerifyResetToken(token) ==
    IF token.signed /\ now < token.iat + ExpiryTicks /\ token.uid \in UserIds
    THEN token.uid
    ELSE 0

\* What a client can put in the URL: a token it was mailed, or one it made up.
TokenInputs ==
    outbox \cup {[uid |-> u, iat |-> now, signed |-> FALSE] : u \in 0..Len(users)}

\* Faulty variant of reset_request: socket.gaierror is not caught and ends
\* the request as an internal error.
ResetRequest_Uncaught(c, m, f, sent) ==
    /\ Leave(c)
    /\ IF session[c] # 0
       THEN /\ resp' = Redirect("reset_request", Home, None, 0, 0, 0)
            /\ UNCHANGED outbox
       ELSE IF m = "POST" /\ RequestResetErrors(f) = {}
       THEN IF sent
            THEN /\ Cardinality(outbox) < MaxMails
                 /\ outbox' = outbox \cup {GetResetToken(ByEmail(f.email))}
                 /\ resp' = Redirect("reset_request", Page("signin"),
                                     "reset_sent", 0, 0, 0)
            ELSE /\ resp' = Abort("reset_request", 500)
                 /\ UNCHANGED outbox
       ELSE /\ resp' = Render("reset_request", "reset_request", None,
                              IF m = "POST" THEN RequestResetErrors(f) ELSE {},
                              NoPrefill)
            /\ UNCHANGED outbox
    /\ UNCHANGED <<users, posts, typed, session, files, now, pending>>

\* @app.route('/reset_password', methods=['GET', 'POST']); sent tells whether
\* mail.send went through or raised socket.gaierror.
ResetRequest(c, m, f, sent) ==
    /\ Leave(c)
    /\ IF session[c] # 0
       THEN /\ resp' = Redirect("reset_request", Home, None, 0, 0, 0)
            /\ UNCHANGED outbox
       ELSE IF m = "POST" /\ RequestResetErrors(f) = {}
       THEN IF sent
            THEN /\ Cardinality(outbox) < MaxMails
                 /\ outbox' = outbox \cup {GetResetToken(ByEmail(f.email))}
                 /\ resp' = Redirect("reset_request", Page("signin"),
                                     "reset_sent", 0, 0, 0)
            ELSE /\ resp' = Redirect("reset_request", Page("no_internet"),
                                     None, 0, 0, 0)
                 /\ UNCHANGED outbox
       ELSE /\ resp' = Render("reset_request", "reset_request", None,
                              IF m = "POST" THEN RequestResetErrors(f) ELSE {},
                              NoPrefill)
            /\ UNCHANGED outbox
    /\ UNCHANGED <<users, posts, typed, session, files, now, pending>>

\* Faulty variant of reset_token: the user is read off the token without
\* verifying it.
ResetToken_Unverified(c, m, token, f) ==
    LET user == IF token.uid \in UserIds THEN token.uid ELSE 0
    IN
    /\ Leave(c)
    /\ IF session[c] # 0
       THEN /\ resp' = Redirect("reset_token", Home, None, 0, 0, 0)
            /\ UNCHANGED users
       ELSE IF user = 0
       THEN /\ resp' = Redirect("reset_token", Page("reset_request"),
                                "invalid_token", 0, 0, 0)
            /\ UNCHANGED users
       ELSE IF m = "POST" /\ ResetPasswordErrors(f) = {}
       THEN /\ users' = [users EXCEPT ![user].password = Hash(f.password)]
            /\ resp' = Redirect("reset_token", Page("signin"),
                                "password_updated", 1, 0, 0)
       ELSE /\ resp' = Render("reset_token", "reset_token", None,
                              IF m = "POST" THEN ResetPasswordErrors(f) ELSE {},
                              NoPrefill)
            /\ UNCHANGED users
    /\ UNCHANGED <<posts, typed, session, files, outbox, now, pending>>

\* Faulty variant of reset_token: the new password is stored as it was typed,
\* not its hash.
ResetToken_Plaintext(c, m, token, f) ==
    LET user == VerifyResetToken(token)
    IN
    /\ Leave(c)
    /\ IF session[c] # 0
       THEN /\ resp' = Redirect("reset_token", Home, None, 0, 0, 0)
            /\ UNCHANGED users
       ELSE IF user = 0
       THEN /\ resp' = Redirect("reset_token", Page("reset_request"),
                                "invalid_token", 0, 0, 0)
            /\ UNCHANGED users
       ELSE IF m = "POST" /\ ResetPasswordErrors(f) = {}
       THEN /\ users' = [users EXCEPT ![user].password = <<"plain", f.password>>]
            /\ resp' = Redirect("reset_token", Page("signin"),
                                "password_updated", 1, 0, 0)
       ELSE /\ resp' = Render("reset_token", "reset_token", None,
                              IF m = "POST" THEN ResetPasswordErrors(f) ELSE {},
                              NoPrefill)
            /\ UNCHANGED users
    /\ UNCHANGED <<posts, typed, session, files, outbox, now, pending>>

\* Faulty variant of reset_token: a token that was used is struck off and
\* cannot be used again.
ResetToken_SingleUse(c, m, token, f) ==
    LET user == VerifyResetToken(token)
    IN
    /\ Leave(c)
    /\ IF session[c] # 0
       THEN /\ resp' = Redirect("reset_token", Home, None, 0, 0, 0)
            /\ UNCHANGED <<users, outbox>>
       ELSE IF user = 0
       THEN /\ resp' = Redirect("reset_token", Page("reset_request"),
                                "invalid_token", 0, 0, 0)
            /\ UNCHANGED <<users, outbox>>
       ELSE IF m = "POST" /\ ResetPasswordErrors(f) = {}
       THEN /\ users' = [users EXCEPT ![user].password = Hash(f.password)]
            /\ outbox' = outbox \ {token}
            /\ resp' = Redirect("reset_token", Page("signin"),
                                "password_updated", 1, 0, 0)
       ELSE /\ resp' = Render("reset_token", "reset_token", None,
                              IF m = "POST" THEN ResetPasswordErrors(f) ELSE {},
                              NoPrefill)
            /\ UNCHANGED <<users, outbox>>
    /\ UNCHANGED <<posts, typed, session, files, now, pending>>

\* Faulty variant of reset_token: overwriting the password ends the Sessions
\* of the User.
ResetToken_EndsSessions(c, m, token, f) ==
    LET user == VerifyResetToken(token)
    IN
    /\ Leave(c)
    /\ IF session[c] # 0
       THEN /\ resp' = Redirect("reset_token", Home, None, 0, 0, 0)
            /\ UNCHANGED <<users, session>>
       ELSE IF user = 0
       THEN /\ resp' = Redirect("reset_token", Page("reset_request"),
                                "invalid_token", 0, 0, 0)
            /\ UNCHANGED <<users, session>>
       ELSE IF m = "POST" /\ ResetPasswordErrors(f) = {}
       THEN /\ users' = [users EXCEPT ![user].password = Hash(f.password)]
            /\ session' = [b \in Browsers |->
                             IF session[b] = user THEN 0 ELSE session[b]]
            /\ resp' = Redirect("reset_token", Page("signin"),
                                "password_updated", 1, 0, 0)
       ELSE /\ resp' = Render("reset_token", "reset_token", None,
                              IF m = "POST" THEN ResetPasswordErrors(f) ELSE {},
                              NoPrefill)
            /\ UNCHANGED <<users, session>>
    /\ UNCHANGED <<posts, typed, files, outbox, now, pending>>

\* @app.route('/reset_password/<token>', methods=['GET', 'POST'])
ResetToken(c, m, token, f) ==
    LET user == VerifyResetToken(token)
    IN
    /\ Leave(c)
    /\ IF session[c] # 0
       THEN /\ resp' = Redirect("reset_token", Home, None, 0, 0, 0)
            /\ UNCHANGED users
       ELSE IF user = 0
       THEN /\ resp' = Redirect("reset_token", Page("reset_request"),
                                "invalid_token", 0, 0, 0)
            /\ UNCHANGED users
       ELSE IF m = "POST" /\ ResetPasswordErrors(f) = {}
       THEN /\ users' = [users EXCEPT ![user].password = Hash(f.password)]
            /\ resp' = Redirect("reset_token", Page("signin"),
                                "password_updated", 1, 0, 0)
       ELSE /\ resp' = Render("reset_token", "reset_token", None,
                              IF m = "POST" THEN ResetPasswordErrors(f) ELSE {},
                              NoPrefill)
            /\ UNCHANGED users
    /\ UNCHANGED <<posts, typed, session, files, outbox, now, pending>>

\* Time passes.
Tick ==
    /\ now < MaxTime
    /\ now' = now + 1
    /\ UNCHANGED <<users, posts, typed, session, nextArg, files, outbox, resp,
                   pending>>

StaticPages == {"index", "user", "about", "no_internet"}

\* index, user, about, no_internet: a page is rendered, nothing is written.
StaticPage(c, page) ==
    /\ Leave(c)
    /\ resp' = Render(page, page, None, {}, NoPrefill)
    /\ UNCHANGED <<users, posts, typed, session, files, outbox, now, pending>>

(* --------------------------- specifications ---------------------------- *)

SignupStep ==
    \E c \in Clients, m \in Methods :
        \E f \in FormsOf(m, SignupForms) : Signup(c, m, f)
SigninStep ==
    \E c \in Clients, m \in Methods :
        \E fresh \in (IF nextArg[c] = NoPath THEN {TRUE} ELSE BOOLEAN) :
            \E f \in FormsOf(m, SigninForms) : SigninReq(c, m, f, fresh)
LogoutStep == \E c \in Clients : Logout(c)
AccountStep ==
    \E c \in Clients, m \in Methods :
        \E f \in FormsOf(m, AccountForms) : Account(c, m, f)
NewPostStep ==
    \E c \in Clients, m \in Methods :
        \E f \in FormsOf(m, PostForms) : NewPost(c, m, f)
ViewPostStep == \E c \in Clients, id \in PostIdInputs : ViewPost(c, id)
UpdatePostStep ==
    \E c \in Clients, m \in Methods, id \in PostIdInputs :
        \E f \in FormsOf(m, PostForms) : UpdatePost(c, m, id, f)
DeletePostStep ==
    \E c \in Clients, m \in Methods, id \in PostIdInputs : DeletePost(c, m, id)
ResetRequestStep ==
    \E c \in Clients, m \in Methods, sent \in BOOLEAN :
        \E f \in FormsOf(m, RequestResetForms) : ResetRequest(c, m, f, sent)
ResetTokenStep ==
    \E c \in Clients, m \in Methods, token \in TokenInputs :
        \E f \in FormsOf(m, ResetPasswordForms) : ResetToken(c, m, token, f)
StaticPageStep == \E c \in Clients, page \in StaticPages : StaticPage(c, page)

\* Every request the application serves.
Next ==
    \/ SignupStep
    \/ SigninStep
    \/ LogoutStep
    \/ AccountStep
    \/ NewPostStep
    \/ ViewPostStep
    \/ UpdatePostStep
    \/ DeletePostStep
    \/ ResetRequestStep
    \/ ResetTokenStep
    \/ Tick
    \/ StaticPageStep

Spec == Init /\ [][Next]_vars

\* The account lifecycle: signup, signin, logout, account update.
NextAccount ==
    \/ SignupStep
    \/ SigninStep
    \/ LogoutStep
    \/ AccountStep

SpecAccount == Init /\ [][NextAccount]_vars

PlainSignupStep ==
    \E c \in Clients, f \in PlainSignupForms : Signup(c, "POST", f)
PlainSigninStep ==
    \E c \in Clients, f \in PlainSigninForms : SigninReq(c, "POST", f, FALSE)

\* The content lifecycle, with the requests that make users and sessions.
NextPosts ==
    \/ PlainSignupStep
    \/ PlainSigninStep
    \/ LogoutStep
    \/ NewPostStep
    \/ ViewPostStep
    \/ UpdatePostStep
    \/ DeletePostStep

SpecPosts == Init /\ [][NextPosts]_vars

\* Longest content text of the text profile below.
MaxTextLen == 4

TextChars == {"a", NL, "<", "b", "r", ">"}
Texts == UNION {[1..n -> TextChars] : n \in 0..MaxTextLen}
TextPostForms == [title : {<<"h", "i">>}, content : Texts]

TextSignupStep ==
    \E c \in Clients :
        Signup(c, "POST", [username |-> Al, email |-> MailA,
                           password |-> "p1", confirm_password |-> "p1"])
TextSigninStep ==
    \E c \in Clients :
        SigninReq(c, "POST", [email |-> MailA, password |-> "p1"], FALSE)
TextNewPostStep ==
    /\ posts = {}
    /\ \E c \in Clients, f \in TextPostForms : NewPost(c, "POST", f)
EditPostStep ==
    \E c \in Clients, id \in PostIdInputs : UpdatePost(c, "GET", id, NoForm)

\* One author writing one post at a time, its content any text of up to
\* MaxTextLen characters, and opening it for edit.
NextText ==
    \/ TextSignupStep
    \/ TextSigninStep
    \/ TextNewPostStep
    \/ EditPostStep
    \/ UpdatePostStep
    \/ DeletePostStep

SpecText == Init /\ [][NextText]_vars

\* Everything that writes to the Credential Store: the account lifecycle and
\* password reset, within one expiry window of the tokens (what an expired
\* token does is the subject of SpecReset).
NextIdentity ==
    \/ SignupStep
    \/ SigninStep
    \/ LogoutStep
    \/ AccountStep
    \/ ResetRequestStep
    \/ ResetTokenStep

SpecIdentity == Init /\ [][NextIdentity]_vars

\* Password reset, with the requests that make users and sessions.
NextReset ==
    \/ SignupStep
    \/ SigninStep
    \/ LogoutStep
    \/ ResetRequestStep
    \/ ResetTokenStep
    \/ Tick

SpecReset == Init /\ [][NextReset]_vars

AuthorSigninForms == [email : EmailInputs, password : PasswordInputs]
AuthorAccountForms ==
    {[username |-> Bo, email |-> MailA,
      picture |-> [stem |-> "me", ext |-> ".png"]]}
AuthorPostForms ==
    [title : {<<"h", "i", " ", "b", "o">>},
     content : {<<"a", NL, "b">>, <<"a">> \o BR \o <<"b">>}]
\* What an author types into a new post, and what into its edit form.
AuthorDraftForms ==
    {f \in AuthorPostForms : f.content = <<"a", NL, "b">>}
AuthorEditForms ==
    {f \in AuthorPostForms : f.content = <<"a">> \o BR \o <<"b">>}
AuthorResetForms == {[password |-> "p2", confirm_password |-> "p2"]}

AuthorSigninStep ==
    \E c \in Clients, f \in AuthorSigninForms : SigninReq(c, "POST", f, FALSE)
AuthorAccountStep ==
    \E c \in Clients, f \in AuthorAccountForms : Account(c, "POST", f)
AuthorNewPostStep ==
    \E c \in Clients, f \in AuthorDraftForms : NewPost(c, "POST", f)
AuthorUpdatePostStep ==
    \E c \in Clients, id \in PostIdInputs, f \in AuthorEditForms :
        UpdatePost(c, "POST", id, f)
AuthorDeletePostStep ==
    \E c \in Clients, id \in PostIdInputs : DeletePost(c, "POST", id)
\* The reset is asked for and completed from the second browser, whatever
\* the first one is doing.
VisitorResetRequestStep ==
    \E c \in Visitors, f \in [email : EmailInputs] :
        ResetRequest(c, "POST", f, TRUE)
VisitorResetTokenStep ==
    \E c \in Visitors, token \in outbox, f \in AuthorResetForms :
        ResetToken(c, "POST", token, f)

\* Authors at work: they sign up and sign in with "p1", write, edit and
\* delete posts and change their accounts, while their passwords are reset
\* to "p2" from another browser.
NextAuthors ==
    \/ PlainSignupStep
    \/ PlainSigninStep
    \/ LogoutStep
    \/ AuthorAccountStep
    \/ AuthorNewPostStep
    \/ AuthorUpdatePostStep
    \/ AuthorDeletePostStep
    \/ VisitorResetRequestStep
    \/ VisitorResetTokenStep

SpecAuthors == Init /\ [][NextAuthors]_vars

HelloWorld == <<"h", "e", "l", "l", "o", " ", "w", "o", "r", "l", "d">>
TwoLines ==
    <<"l", "i", "n", "e", "1", NL, "l", "i", "n", "e", "2">>
WritingTitles == {HelloWorld, <<"h", "i", " ", "b", "o">>, <<" ">>, <<>>}
WritingContents == {TwoLines, <<"a", NL, NL>>, <<NL>>, <<" ", NL>>, <<>>}
WritingForms == [title : WritingTitles, content : WritingContents]

WritingNewPostStep ==
    \E c \in Clients, m \in Methods :
        \E f \in FormsOf(m, WritingForms) : NewPost(c, m, f)

\* One person writing posts: the titles and contents they may type include
\* the empty and the blank ones, and what was stored is then looked at.
NextWriting ==
    \/ TextSignupStep
    \/ TextSigninStep
    \/ LogoutStep
    \/ WritingNewPostStep
    \/ ViewPostStep
    \/ DeletePostStep

SpecWriting == Init /\ [][NextWriting]_vars

\* Password renewal: people who signed up with the password "p1" ask for a
\* reset, complete it, and sign in with the old and the new password.
NextRenewal ==
    \/ PlainSignupStep
    \/ AuthorSigninStep
    \/ LogoutStep
    \/ ResetRequestStep
    \/ ResetTokenStep
    \/ Tick

SpecRenewal == Init /\ [][NextRenewal]_vars

\* A profile picture disappears from static/img/profile_pics behind the
\* application's back: the case the FileNotFoundError handler of account is
\* there for.
FileLost ==
    /\ \E g \in files \ {DefaultImg} : files' = files \ {g}
    /\ UNCHANGED <<users, posts, typed, session, nextArg, outbox, now, resp,
                   pending>>

\* Profile pictures: people change their accounts and upload pictures, and
\* picture files may go missing.
NextPictures ==
    \/ PlainSignupStep
    \/ PlainSigninStep
    \/ LogoutStep
    \/ AccountStep
    \/ FileLost

SpecPictures == Init /\ [][NextPictures]_vars

(* ------------------------ interleaved requests ------------------------- *)

\* The row shares its username or its email with a User other than self.
Collides(username, email, self) ==
    \E i \in UserIds \ {self} :
        users[i].username = username \/ users[i].email = email

\* What the Credential Store may do with a commit: carry it out, or, when the
\* row collides with another and the store enforces uniqueness itself,
\* refuse it.
CommitOutcomes(username, email, self) ==
    IF Collides(username, email, self) THEN BOOLEAN ELSE {TRUE}

\* signup up to and including form.validate_on_submit(): a request that does
\* not validate is answered at once, one that does goes on to its commit.
SignupLookup(c, f) ==
    /\ pending[c] = Idle
    /\ IF session[c] # 0 \/ SignupErrors(f) # {}
       THEN Signup(c, "POST", f)
       ELSE /\ pending' = [pending EXCEPT ![c] =
                             Pending("signup", f.username, f.email,
                                     f.password, NoPicture)]
            /\ UNCHANGED <<users, posts, typed, session, nextArg, files,
                           outbox, now, resp>>

\* signup after validate_on_submit(): the row is added and committed.
SignupCommit(c, accepted) ==
    LET f == pending[c]
    IN
    /\ f.op = "signup"
    /\ pending' = [pending EXCEPT ![c] = Idle]
    /\ Leave(c)
    /\ IF accepted
       THEN /\ Len(users) < MaxUsers
            /\ users' = Append(users, [username |-> f.username,
                                       email |-> f.email,
                                       password |-> Hash(f.password),
                                       img_file |-> DefaultImg])
            /\ resp' = Redirect("signup", Page("signin"), "account_created",
                                1, 0, 0)
       ELSE /\ resp' = Abort("signup", 500)
            /\ UNCHANGED users
    /\ UNCHANGED <<posts, typed, session, files, outbox, now>>

\* account up to and including validate_on_submit() and the change
\* detection: a request that has nothing to commit is answered at once.
AccountLookup(c, f) ==
    LET cu == session[c]
    IN
    /\ pending[c] = Idle
    /\ IF \/ cu = 0
          \/ AccountErrors(f, cu) # {}
          \/ ~AccountChanged(cu, f)
          \/ f.picture = NoPicture
       THEN Account(c, "POST", f)
       ELSE /\ pending' = [pending EXCEPT ![c] =
                             Pending("account", f.username, f.email, "",
                                     f.picture)]
            /\ UNCHANGED <<users, posts, typed, session, nextArg, files,
                           outbox, now, resp>>

\* account after the change detection: the fields are assigned, the picture
\* is saved, the old one removed, and the row committed.
AccountCommit(c, accepted, random_hex) ==
    LET f == pending[c]
        cu == session[c]
        old_image == users[cu].img_file
        picture_fn == SavePicture(random_hex, f.picture)
        removes == old_image # DefaultImg
    IN
    /\ f.op = "account"
    /\ pending' = [pending EXCEPT ![c] = Idle]
    /\ Leave(c)
    /\ picture_fn \notin files
    /\ \A u \in UserIds : users[u].img_file # picture_fn
    /\ files' = (files \cup {picture_fn})
                \ (IF removes THEN {old_image} ELSE {})
    /\ IF accepted
       THEN /\ users' = [users EXCEPT ![cu] =
                           [username |-> f.username,
                            email |-> f.email,
                            password |-> users[cu].password,
                            img_file |-> picture_fn]]
            /\ resp' = Redirect("account", Page("account"),
                                "account_updated", 1, 1,
                                IF removes THEN 1 ELSE 0)
       ELSE /\ resp' = Abort("account", 500)
            /\ UNCHANGED users
    /\ UNCHANGED <<posts, typed, session, outbox, now>>

RaceSignupForms ==
    [username : UsernameInputs, email : EmailInputs,
     password : {"p1"}, confirm_password : {"p1"}]
RaceAccountForms ==
    [username : UsernameInputs, email : EmailInputs,
     picture : {[stem |-> "default", ext |-> ".jpg"],
                [stem |-> "me", ext |-> ".png"]}]

SignupLookupStep ==
    \E c \in Browsers, f \in RaceSignupForms : SignupLookup(c, f)
SignupCommitStep ==
    \E c \in Browsers :
        \E accepted \in CommitOutcomes(pending[c].username,
                                       pending[c].email, 0) :
            SignupCommit(c, accepted)
RaceSigninStep ==
    \E c \in Browsers, f \in PlainSigninForms :
        /\ pending[c] = Idle
        /\ SigninReq(c, "POST", f, FALSE)
AccountLookupStep ==
    \E c \in Browsers, f \in RaceAccountForms : AccountLookup(c, f)
AccountCommitStep ==
    \E c \in Browsers, random_hex \in HexStems :
        \E accepted \in CommitOutcomes(pending[c].username,
                                       pending[c].email, session[c]) :
            AccountCommit(c, accepted, random_hex)

\* Two browsers whose signup and account requests interleave between the
\* uniqueness lookup and the commit.
NextRace ==
    \/ SignupLookupStep
    \/ SignupCommitStep
    \/ RaceSigninStep
    \/ AccountLookupStep
    \/ AccountCommitStep

SpecRace == Init /\ [][NextRace]_vars

RenewedSigninForms == [email : EmailInputs, password : {"p2"}]

RenewedSigninStep ==
    \E c \in Clients, f \in RenewedSigninForms :
        SigninReq(c, "POST", f, FALSE)
VisitorResetTokenAnyStep ==
    \E c \in Visitors, m \in Methods, token \in TokenInputs :
        \E f \in FormsOf(m, ResetPasswordForms) : ResetToken(c, m, token, f)

\* A mailed reset link used again and again from one browser, while its
\* owner, who signed up with "p1", signs in at another with "p2".
NextReuse ==
    \/ PlainSignupStep
    \/ RenewedSigninStep
    \/ LogoutStep
    \/ VisitorResetRequestStep
    \/ VisitorResetTokenAnyStep
    \/ Tick

SpecReuse == Init /\ [][NextReuse]_vars

(* ------------------------------- claims -------------------------------- *)

UsernameInUse(name) == \E i \in UserIds : users[i].username = name
EmailInUse(email) == \E i \in UserIds : users[i].email = email

\* C1: in every state reached by signup, account-update and password-reset
\* requests (each one atomic), no two distinct Users have the same username
\* and no two distinct Users have the same email.
C1_UniqueIdentity ==
    \A i, j \in UserIds :
        i # j => /\ users[i].username # users[j].username
                 /\ users[i].email # users[j].email

\* Two users exist, one has renamed itself through an account update, and
\* the last account update was refused for a taken username.
C1_Witness ==
    /\ Len(users) = 2
    /\ \E i \in UserIds : users[i].img_file # DefaultImg
    /\ resp.op = "account"
    /\ <<"username", "taken">> \in resp.errors

\* C2: a signup submission (by an anonymous client, as the signup path
\* requires) whose username or email is already in the Credential Store
\* creates no User, and the field flagged as taken is exactly the one that
\* collides: username, email, or both.  No signup request of a logged-in
\* client creates a User either.
C2_SignupCollisionRejected ==
    [][resp'.op = "signup" =>
       \A c \in Clients, f \in SignupForms :
          /\ ( /\ session[c] = 0
               /\ UsernameInUse(f.username) \/ EmailInUse(f.email)
               /\ Signup(c, "POST", f) )
             => /\ users' = users
                /\ resp'.status = 200
                /\ resp'.to = Page("signup")
                /\ <<"username", "taken">> \in resp'.errors
                      <=> UsernameInUse(f.username)
                /\ <<"email", "taken">> \in resp'.errors
                      <=> EmailInUse(f.email)
          /\ (session[c] # 0 /\ Signup(c, "POST", f)) => users' = users
      ]_vars

\* A signup was refused with both fields flagged as taken.
C2_Witness ==
    /\ resp.op = "signup"
    /\ resp.status = 200
    /\ {<<"username", "taken">>, <<"email", "taken">>} \subseteq resp.errors
    /\ \E i \in UserIds : TRUE

\* The client is logged in as somebody other than the author of post id.
NonAuthor(c, id) ==
    /\ session[c] # 0
    /\ HasPost(id)
    /\ PostById(id).author # session[c]

\* C3 as first stated: update_post and delete_post by a logged-in non-author
\* answer 403 whatever the request method.
C3_ForbiddenAnyMethod ==
    [][resp'.op \in {"update_post", "delete_post"} =>
       \A c \in Clients, m \in Methods, id \in PostIdInputs :
          NonAuthor(c, id) =>
             /\ \A f \in FormsOf(m, PostForms) :
                   UpdatePost(c, m, id, f) => resp'.status = 403
             /\ DeletePost(c, m, id) => resp'.status = 403
      ]_vars

\* C3: for distinct users A and B and a Post of A, update_post by B's
\* session answers 403 on GET and on POST, delete_post by B's session answers
\* 403 on POST, and on GET, which the delete route does not take, 405; the
\* Post is unchanged in every one of these.
C3_NonAuthorRefused ==
    [][resp'.op \in {"update_post", "delete_post"} =>
       \A c \in Clients, m \in Methods, id \in PostIdInputs :
          NonAuthor(c, id) =>
             /\ \A f \in FormsOf(m, PostForms) :
                   UpdatePost(c, m, id, f)
                      => resp'.status = 403 /\ posts' = posts
             /\ DeletePost(c, m, id)
                   => /\ resp'.status = IF m = "POST" THEN 403 ELSE 405
                      /\ posts' = posts
      ]_vars

\* The user logged in was refused the deletion of somebody else's post.
C3_Witness ==
    /\ resp.op = "delete_post"
    /\ resp.status = 403
    /\ \E c \in Clients, p \in posts : session[c] # 0 /\ p.author # session[c]

\* C4: a Post's title or content changes only in an update_post step of a
\* session bound to its author, a Post is removed only in a delete_post step
\* of a session bound to its author, and a request that ends in 404 or 403,
\* or is made without a session, leaves the Content Store as it was.
C4_OnlyAuthorMutates ==
    [][/\ \A p \in posts :
             p \notin posts' =>
                \E c \in Clients :
                   /\ session[c] = p.author
                   /\ IF p.id \in PostIds'
                      THEN /\ resp'.op = "update_post"
                           /\ \E f \in PostForms :
                                 UpdatePost(c, "POST", p.id, f)
                      ELSE /\ resp'.op = "delete_post"
                           /\ DeletePost(c, "POST", p.id)
       /\ resp'.status \in {403, 404} => posts' = posts
       /\ resp'.flash = "login_required" => posts' = posts
       /\ (\A c \in Clients : session[c] = 0) => posts' = posts
      ]_vars

\* A post was updated by its author while another user exists.
C4_Witness ==
    /\ resp.op = "update_post"
    /\ resp.flash = "post_updated"
    /\ Len(users) = 2
    /\ \E c \in Clients, p \in posts :
          p.id = resp.to.id /\ p.author = session[c]

\* The generic failure of signin.
LoginFailed == Render("signin", "signin", "login_failed", {}, NoPrefill)

\* C5: a signin submission (well-formed, by an anonymous client) with a
\* registered email and a wrong password and one with an email of no User
\* get the same response, the signin page with the generic failure notice,
\* and neither establishes a Session or changes anything else.
C5_SigninFailureUniform ==
    [][resp'.op = "signin" =>
       \A c \in Clients, f \in SigninForms, fresh \in BOOLEAN :
          LET wrongPassword ==
                 \E u \in UserIds : /\ users[u].email = f.email
                                    /\ users[u].password # Hash(f.password)
              unknownEmail == ~EmailInUse(f.email)
          IN  ( /\ session[c] = 0
                /\ IsEmail(f.email)
                /\ f.password # ""
                /\ wrongPassword \/ unknownEmail
                /\ SigninReq(c, "POST", f, fresh) )
              => /\ resp' = LoginFailed
                 /\ session' = session
      ]_vars

\* The generic failure was answered while a User is registered.
C5_Witness ==
    /\ resp = LoginFailed
    /\ Len(users) = 1
    /\ \A c \in Clients : session[c] = 0

\* C6: an account update whose username and email equal the stored ones and
\* that carries no picture, or one whose filename equals the stored image's,
\* writes nothing to the Credential Store, calls the Image Processor not at
\* all and deletes no file.
C6_UnchangedAccountNoWrites ==
    [][resp'.op = "account" =>
       \A c \in Clients, f \in AccountForms :
          ( /\ session[c] # 0
            /\ f.username = users[session[c]].username
            /\ f.email = users[session[c]].email
            /\ f.picture = NoPicture \/ f.picture = users[session[c]].img_file
            /\ Account(c, "POST", f) )
          => /\ users' = users
             /\ files' = files
             /\ resp'.writes = 0
             /\ resp'.imgCalls = 0
             /\ resp'.deletes = 0
      ]_vars

\* An account update was answered with the bare redirect of the no-change
\* path.
C6_Witness ==
    /\ resp.op = "account"
    /\ resp.status = 302
    /\ resp.to = Page("account")
    /\ resp.flash = None
    /\ \E c \in Clients : session[c] # 0

\* C7: a valid account update that changes the username or the email and
\* carries no picture commits the new username and email, leaves the image
\* reference and the image files as they were, calls the Image Processor not
\* at all and ends with the redirect to the account view.
C7_UpdateWithoutPicture ==
    [][resp'.op = "account" =>
       \A c \in Clients, f \in AccountForms :
          ( /\ session[c] # 0
            /\ f.picture = NoPicture
            /\ f.username # users[session[c]].username
                  \/ f.email # users[session[c]].email
            /\ AccountErrors(f, session[c]) = {}
            /\ Account(c, "POST", f) )
          => /\ users'[session[c]].username = f.username
             /\ users'[session[c]].email = f.email
             /\ users'[session[c]].img_file = users[session[c]].img_file
             /\ files' = files
             /\ resp'.imgCalls = 0
             /\ resp'.status = 302
             /\ resp'.to = Page("account")
      ]_vars

\* The text contains the storage line-break marker.
HasMarker(text) ==
    \E i \in 1..(Len(text) - 3) : SubSeq(text, i, i + 3) = BR
HasNewline(text) == \E i \in 1..Len(text) : text[i] = NL

\* The last response is the edit form of a post, as GET fills it.
EditFormShown ==
    /\ resp.op = "update_post"
    /\ resp.status = 200
    /\ resp.errors = {}

\* C8 as first stated: the edit form opened on a Post shows the content
\* exactly as its author submitted it, whatever the text.
C8_RoundTripAnyText ==
    EditFormShown =>
       \A t \in typed : t.id = resp.to.id => resp.form.content = t.content

\* C8: the edit form opened on a Post shows the content exactly as its
\* author submitted it, for every text that does not itself contain the
\* marker "<br>".
C8_RoundTripWithoutMarker ==
    EditFormShown =>
       \A t \in typed :
          (t.id = resp.to.id /\ ~HasMarker(t.content))
             => resp.form.content = t.content

\* The edit form shows a text with an embedded newline as it was submitted.
C8_Witness ==
    /\ EditFormShown
    /\ \E t \in typed : /\ t.id = resp.to.id
                        /\ HasNewline(t.content)
                        /\ ~HasMarker(t.content)
                        /\ resp.form.content = t.content

\* C9: a successful signin made at the signin URL that login_required sent
\* the client to redirects to the captured path and leaves the client with
\* no captured path; a successful signin without one redirects Home; and a
\* path is captured only by the login_required redirect of an anonymous
\* request.
C9_NextUsedOnce ==
    [][\A c \in Clients :
          /\ (resp'.op = "signin" /\ session[c] = 0 /\ session'[c] # 0)
                => /\ nextArg'[c] = NoPath
                   /\ resp'.status = 302
                   /\ resp'.to \in {Home, nextArg[c]}
                   /\ nextArg[c] = NoPath => resp'.to = Home
                   /\ \A f \in SigninForms :
                         SigninReq(c, "POST", f, FALSE) /\ nextArg[c] # NoPath
                            => resp'.to = nextArg[c]
          /\ (nextArg'[c] # NoPath /\ nextArg'[c] # nextArg[c])
                => /\ session[c] = 0
                   /\ resp'.flash = "login_required"
                   /\ resp'.to = Page("signin")
      ]_vars

\* The client signed in and was redirected to the account page it had asked
\* for, and carries no captured path any more.
C9_Witness ==
    /\ resp.op = "signin"
    /\ resp.status = 302
    /\ resp.to = Page("account")
    /\ \E c \in Clients : session[c] # 0 /\ nextArg[c] = NoPath

\* The token has a bad signature, is expired, or names no User.
TokenFails(token) ==
    \/ ~token.signed
    \/ now >= token.iat + ExpiryTicks
    \/ token.uid \notin UserIds

\* C10: a reset-completion request (by an anonymous client, as the path
\* requires) whose token fails verification changes no User, whatever the
\* form and the method, and redirects to the reset request with the
\* invalid-or-expired notice; and a User's password hash changes only in a
\* reset-completion step whose token was mailed for that User and verifies.
C10_BadTokenRefused ==
    [][/\ resp'.op = "reset_token" =>
          \A c \in Clients, m \in Methods, token \in TokenInputs :
             \A f \in FormsOf(m, ResetPasswordForms) :
                ( /\ session[c] = 0
                  /\ TokenFails(token)
                  /\ ResetToken(c, m, token, f) )
                => /\ users' = users
                   /\ resp'.status = 302
                   /\ resp'.to = Page("reset_request")
                   /\ resp'.flash = "invalid_token"
       /\ \A u \in UserIds :
             users'[u].password # users[u].password =>
                /\ resp'.op = "reset_token"
                /\ \E c \in Clients, token \in outbox, f \in ResetPasswordForms :
                      /\ token.uid = u
                      /\ ~TokenFails(token)
                      /\ ResetToken(c, "POST", token, f)
      ]_vars

\* An expired token exists and the last reset completion was refused.
C10_Witness ==
    /\ resp.op = "reset_token"
    /\ resp.flash = "invalid_token"
    /\ \E token \in outbox : now >= token.iat + ExpiryTicks

\* C11: a valid reset request of an anonymous client whose mail could not be
\* sent for want of a connection (socket.gaierror) ends with the redirect to
\* the "no internet" page, not with the signin redirect and not with an
\* internal error; no reset request changes the Credential Store; and the
\* "link sent" notice and the redirect to signin are answered only by a
\* request whose mail went out.
C11_MailFailureRedirect ==
    [][(resp'.op = "reset_request" /\ now' = now) =>
       /\ \A c \in Clients, f \in RequestResetForms :
             ( /\ session[c] = 0
               /\ RequestResetErrors(f) = {}
               /\ ResetRequest(c, "POST", f, FALSE) )
             => /\ resp'.status = 302
                /\ resp'.to = Page("no_internet")
                /\ resp'.flash = None
                /\ outbox' = outbox
       /\ users' = users
       /\ (resp'.flash = "reset_sent" \/ resp'.to = Page("signin"))
             => /\ resp'.flash = "reset_sent" /\ resp'.to = Page("signin")
                /\ \E c \in Clients, f \in RequestResetForms :
                      /\ ResetRequest(c, "POST", f, TRUE)
                      /\ GetResetToken(ByEmail(f.email)) \in outbox'
                /\ \A c \in Clients, m \in Methods :
                      \A f \in FormsOf(m, RequestResetForms) :
                         ~ResetRequest(c, m, f, FALSE)
      ]_vars

\* A registered user's reset request met a failing mailer and was sent to the
\* "no internet" page; nothing was mailed.
C11_Witness ==
    /\ resp.op = "reset_request"
    /\ resp.status = 302
    /\ resp.to = Page("no_internet")
    /\ Len(users) > 0
    /\ outbox = {}

\* The answer of logout.
LoggedOut == Redirect("logout", Home, None, 0, 0, 0)

\* C12: a logout request leaves its client without a Session whether or not
\* it had one, answers the redirect Home, and changes neither the Credential
\* Store nor the Content Store nor any other client's Session; and a logout
\* that follows a logout changes nothing at all.
C12_LogoutIdempotent ==
    [][resp'.op = "logout" =>
       \A c \in Clients :
          /\ Logout(c)
                => /\ session'[c] = 0
                   /\ \A d \in Clients \ {c} : session'[d] = session[d]
                   /\ resp' = LoggedOut
                   /\ users' = users
                   /\ posts' = posts
                   /\ files' = files
          /\ (Logout(c) /\ resp = LoggedOut /\ session[c] = 0
                /\ nextArg[c] = NoPath)
                => UNCHANGED vars
      ]_vars

\* The author of a post has logged out: nobody is logged in, the user and
\* the post are still there.
C12_Witness ==
    /\ resp = LoggedOut
    /\ \A c \in Clients : session[c] = 0
    /\ Len(users) > 0
    /\ posts # {}

\* Every Post row has one author, a User in the Credential Store, and no two
\* rows share an id.
AuthorsExist ==
    /\ \A p \in posts : p.author \in UserIds
    /\ \A p, q \in posts : p.id = q.id => p = q

\* C13: in every reachable state each Post has exactly one author and that
\* author is a User of the Credential Store; a Post comes into being only in
\* a new_post step and its author is the User of the session that made the
\* request; and no step (update_post, account update, password reset, or any
\* other) changes the author of a Post or removes a User.
C13_AuthorFixed ==
    /\ []AuthorsExist
    /\ [][/\ \A q \in posts' :
                q.id \notin PostIds =>
                   /\ resp'.op = "new_post"
                   /\ \E c \in Browsers, f \in PostForms :
                         /\ session[c] # 0
                         /\ q.author = session[c]
                         /\ NewPost(c, "POST", f)
          /\ \A p \in posts, q \in posts' :
                p.id = q.id => q.author = p.author
          /\ Len(users') >= Len(users)
         ]_vars

\* A post was edited by its author after the author had changed username,
\* email or picture and had the password reset.
C13_Witness ==
    /\ resp.op = "update_post"
    /\ resp.flash = "post_updated"
    /\ \E p \in posts :
          /\ p.id = resp.to.id
          /\ users[p.author].img_file # DefaultImg
          /\ users[p.author].password = Hash("p2")

\* The step adds exactly one Post, made of form f by the user cu.
CreatesPost(f, cu) ==
    /\ Cardinality(posts') = Cardinality(posts) + 1
    /\ \E q \in posts' :
          /\ posts' = posts \cup {q}
          /\ q.id \notin PostIds
          /\ q.title = Title(f.title)
          /\ q.content = Normalize(f.content)
          /\ q.author = cu
          /\ f.title = HelloWorld =>
                q.title = <<"H", "e", "l", "l", "o", " ",
                            "W", "o", "r", "l", "d">>
          /\ f.content = TwoLines =>
                q.content = <<"l", "i", "n", "e", "1", "<", "b", "r", ">",
                              "l", "i", "n", "e", "2">>
          /\ ~HasNewline(q.content)

\* C14 as first stated: every submission whose title and content are not
\* empty creates the Post, and one with an empty title or content none.
C14_NonEmptyCreates ==
    [][resp'.op = "new_post" =>
       \A c \in Clients, f \in WritingForms :
          (session[c] # 0 /\ NewPost(c, "POST", f)) =>
             IF f.title # <<>> /\ f.content # <<>>
             THEN CreatesPost(f, session[c])
             ELSE posts' = posts
      ]_vars

\* C14: a new_post submission by a logged-in user whose title and content
\* each hold a character that is not whitespace creates exactly one Post: its
\* title the title-cased input, its content the input with every newline
\* replaced by "<br>", its author the current User ("hello world" and
\* "line1\nline2" are stored as "Hello World" and "line1<br>line2").  A
\* submission whose title or content is empty or all whitespace creates no
\* Post and shows the form again with the field flagged, and so does none
\* made without a session.
C14_NewPostStored ==
    [][resp'.op = "new_post" =>
       \A c \in Clients, f \in WritingForms :
          /\ (session[c] # 0 /\ NewPost(c, "POST", f)) =>
                IF ~IsBlank(f.title) /\ ~IsBlank(f.content)
                THEN CreatesPost(f, session[c])
                ELSE /\ posts' = posts
                     /\ resp'.status = 200
                     /\ <<"title", "required">> \in resp'.errors
                           <=> IsBlank(f.title)
                     /\ <<"content", "required">> \in resp'.errors
                           <=> IsBlank(f.content)
          /\ (session[c] = 0 /\ NewPost(c, "POST", f)) => posts' = posts
      ]_vars

\* The post "hello world" / "line1\nline2" was created and is shown as
\* "Hello World" / "line1<br>line2".
C14_Witness ==
    /\ resp.op = "post"
    /\ resp.status = 200
    /\ resp.form.title = <<"H", "e", "l", "l", "o", " ",
                           "W", "o", "r", "l", "d">>
    /\ resp.form.content = <<"l", "i", "n", "e", "1", "<", "b", "r", ">",
                             "l", "i", "n", "e", "2">>
    /\ \E t \in typed : /\ t.id = resp.to.id
                        /\ t.title = HelloWorld
                        /\ t.content = TwoLines

\* C15: a reset completion by an anonymous client with a token that verifies
\* to User U and a non-empty password P equal to its confirmation overwrites
\* U's password hash with the hash of P and changes nothing else: no other
\* field of U, no other User, no Post, Session or file; after it the stored
\* hash matches P and no other password.  And a well-formed signin by an
\* anonymous client with the email of a User establishes a Session for that
\* User exactly when the password is the one the stored hash was made of,
\* and is otherwise answered with the generic failure.
C15_ResetThenSignin ==
    [][/\ resp'.op = "reset_token" =>
          \A c \in Clients, token \in TokenInputs, f \in ResetPasswordForms :
             ( /\ session[c] = 0
               /\ VerifyResetToken(token) # 0
               /\ f.password # ""
               /\ f.confirm_password = f.password
               /\ ResetToken(c, "POST", token, f) )
             => /\ users' = [users EXCEPT
                               ![token.uid].password = Hash(f.password)]
                /\ <<posts', session', files'>> = <<posts, session, files>>
                /\ resp'.flash = "password_updated"
                /\ resp'.to = Page("signin")
                /\ \A pw \in PasswordInputs :
                      CheckHash(users'[token.uid].password, pw)
                         <=> pw = f.password
       /\ resp'.op = "signin" =>
          \A c \in Clients, f \in AuthorSigninForms, u \in UserIds :
             ( /\ session[c] = 0
               /\ users[u].email = f.email
               /\ SigninReq(c, "POST", f, FALSE) )
             => IF users[u].password = Hash(f.password)
                THEN session'[c] = u /\ resp'.status = 302
                ELSE session'[c] = 0 /\ resp' = LoginFailed
      ]_vars

\* A user who signed up with "p1" and had the password reset to "p2" has
\* signed in with "p2".
C15_Witness ==
    /\ resp.op = "signin"
    /\ resp.status = 302
    /\ \E c \in Clients :
          /\ session[c] # 0
          /\ users[session[c]].password = Hash("p2")

\* C16: a valid account update that carries a picture and passes the change
\* detection leaves the User's image reference naming a file that was just
\* generated (a random stem with the upload's extension, now in the media
\* directory, not there before); the image referenced before is not in the
\* media directory afterwards unless it is the default image; the update
\* commits the same way whether or not the image referenced before was still
\* in the media directory; and no account request removes the default image.
C16_PictureReplaced ==
    [][resp'.op = "account" =>
       /\ \A c \in Clients, f \in AccountForms :
             ( /\ session[c] # 0
               /\ f.picture # NoPicture
               /\ AccountErrors(f, session[c]) = {}
               /\ AccountChanged(session[c], f)
               /\ Account(c, "POST", f) )
             => LET old == users[session[c]].img_file
                    new == users'[session[c]].img_file
                IN  /\ new # old
                    /\ new \notin files
                    /\ new \in files'
                    /\ new.stem \in HexStems
                    /\ new.ext = f.picture.ext
                    /\ old # DefaultImg => old \notin files'
                    /\ files' = (files \cup {new}) \ ({old} \ {DefaultImg})
                    /\ users'[session[c]].username = f.username
                    /\ users'[session[c]].email = f.email
                    /\ resp'.status = 302
                    /\ resp'.flash = "account_updated"
                    /\ resp'.writes = 1
       /\ DefaultImg \in files => DefaultImg \in files'
      ]_vars

\* A user has replaced an uploaded picture by another: the reference names
\* the new file, the old file is gone, the default image is still there.
C16_Witness ==
    /\ resp.op = "account"
    /\ resp.flash = "account_updated"
    /\ resp.deletes = 1
    /\ Len(users) = 1
    /\ files = {DefaultImg, users[1].img_file}
    /\ users[1].img_file # DefaultImg

\* C17: with the uniqueness lookup and the commit of each signup and account
\* request as separate steps of two browsers, no reachable state has two
\* Users with the same username or with the same email: of the requests that
\* aim at one value at most one commits it.
C17_UniqueUnderInterleaving ==
    /\ \A name \in UsernameInputs :
          Cardinality({i \in UserIds : users[i].username = name}) <= 1
    /\ \A email \in EmailInputs :
          Cardinality({i \in UserIds : users[i].email = email}) <= 1

\* The last request was a reset completion that overwrote a password.
PasswordUpdated ==
    resp = Redirect("reset_token", Page("signin"), "password_updated", 1, 0, 0)

\* C18: a reset completion that succeeds with token T leaves T as usable as
\* it was: the step changes nothing but the User's password hash and the
\* response, T is still among the mailed tokens and still verifies to the
\* same User; and a completion with a mailed, unexpired token and a valid
\* form overwrites the hash whatever came before, also when the request
\* before it was a successful completion with the same token.
C18_TokenReusable ==
    /\ [](PasswordUpdated =>
            \A token \in outbox :
               now < token.iat + ExpiryTicks
                  => VerifyResetToken(token) = token.uid)
    /\ [][resp'.op = "reset_token" =>
          \A c \in Browsers, token \in outbox, f \in ResetPasswordForms :
             ( /\ session[c] = 0
               /\ ~TokenFails(token)
               /\ ResetPasswordErrors(f) = {}
               /\ ResetToken(c, "POST", token, f) )
             => /\ users' = [users EXCEPT
                               ![token.uid].password = Hash(f.password)]
                /\ resp' = Redirect("reset_token", Page("signin"),
                                    "password_updated", 1, 0, 0)
                /\ UNCHANGED <<posts, typed, session, files, outbox, now,
                               pending>>
                /\ token \in outbox'
                /\ token.uid \in 1..Len(users')
                /\ now' < token.iat + ExpiryTicks
         ]_vars

\* The one mailed token has been used twice: its owner signed up with "p1",
\* signed in with "p2" after the first use, and the second use has just put
\* "p1" back.
C18_Witness ==
    /\ PasswordUpdated
    /\ Cardinality(outbox) = 1
    /\ \E c \in Clients, token \in outbox :
          /\ session[c] = token.uid
          /\ users[token.uid].password = Hash("p1")

\* The browser is logged in as a User whose password has been reset: the
\* User signed up and signed in with "p1" and the stored hash is of "p2".
SessionOutlivedReset(c) ==
    /\ session[c] # 0
    /\ users[session[c]].password = Hash("p2")

\* C19: a reset completion changes no Session; a Session ends only in a
\* logout request of its browser; and a Session whose User has had the
\* password overwritten is served by the auth-required handlers as before:
\* its valid account update, new post, and update and deletion of its own
\* post are carried out, and none of its requests is sent to signin.
C19_SessionsSurviveReset ==
    [][/\ resp'.op = "reset_token" => session' = session
       /\ \A c \in Browsers :
             (session[c] # 0 /\ session'[c] # session[c])
                => /\ resp'.op = "logout"
                   /\ session'[c] = 0
                   /\ Logout(c)
       /\ resp'.op \in {"account", "new_post", "update_post", "delete_post"}
          => \A c \in Clients :
                SessionOutlivedReset(c) =>
                   /\ \A f \in AuthorAccountForms :
                         Account(c, "POST", f)
                            => /\ resp'.flash # "login_required"
                               /\ (AccountErrors(f, session[c]) = {}
                                     /\ AccountChanged(session[c], f))
                                  => resp'.flash = "account_updated"
                   /\ \A f \in AuthorPostForms :
                         NewPost(c, "POST", f)
                            => resp'.flash = "post_created"
                   /\ \A id \in PostIdInputs, f \in AuthorPostForms :
                         UpdatePost(c, "POST", id, f)
                            => /\ resp'.flash # "login_required"
                               /\ (HasPost(id)
                                     /\ PostById(id).author = session[c])
                                  => resp'.flash = "post_updated"
                   /\ \A id \in PostIdInputs :
                         DeletePost(c, "POST", id)
                            => /\ resp'.flash # "login_required"
                               /\ (HasPost(id)
                                     /\ PostById(id).author = session[c])
                                  => resp'.flash = "post_deleted"
      ]_vars

\* A user whose password was reset from another browser while logged in has
\* deleted a post in the same Session.
C19_Witness ==
    /\ resp.op = "delete_post"
    /\ resp.flash = "post_deleted"
    /\ \E c \in Clients : SessionOutlivedReset(c)
    /\ outbox # {}

====
